---- MODULE Spec2Model ----
(***************************************************************************)
(* A model of lib/s3h.js: the bounded-concurrency uploader                 *)
(* uploadUntilFinished, its polling loop, the storage client's completion  *)
(* callbacks, and the promise the caller awaits.                           *)
(*                                                                         *)
(* One run of uploadUntilFinished is modelled.  Init is the state after    *)
(* the function's locals have been set up (lines 118-124) and before the   *)
(* promise executor body runs.  The executor runs synchronously up to its  *)
(* first await (action Executor); every later turn of the loop is the      *)
(* continuation that runs when the 25 ms timer fires (action TimerFires);  *)
(* the storage client reports a transfer's outcome by calling the callback *)
(* handed to putObject (action Callback), possibly already inside          *)
(* putObject itself (a synchronous reply, as the unit tests' client does). *)
(***************************************************************************)
EXTENDS Integers, Sequences, FiniteSets, TLC

\* ------------------------------------------------------------- bounds

\* Longest input list explored.
MaxItems == 3

\* Largest explicit options.maximumConcurrentUploads explored.
MaxCap == 2

\* Longest generated argument of normalizePath.
MaxPathLen == 3

\* Most entries (files, directories, others) in a generated directory tree.
MaxNodes == 3

\* ---------------------------------------------------------- constants

DEFAULT_MAXIMUM_CONCURRENT_UPLOADS == 5

\* ------------------------------------------------------------- inputs

\* The path '__proto__': as a key of a plain object it names the object's
\* prototype, not a property.
ProtoPath == << "_", "_", "p", "r", "o", "t", "o", "_", "_" >>

\* Local file paths, as sequences of characters.
Paths == { <<"a">>, <<"/", "b">>, <<"c", "/">>, <<"/", "d", "/">>, ProtoPath }

\* Input lists: every sequence of distinct paths of length <= MaxItems.
RECURSIVE ListsOfLen(_)
ListsOfLen(n) ==
  IF n = 0 THEN { <<>> }
  ELSE { Append(l, p) : l \in ListsOfLen(n - 1), p \in Paths }

IsDistinct(l) == \A i, j \in 1..Len(l) : i # j => l[i] # l[j]

ItemLists == UNION { { l \in ListsOfLen(n) : IsDistinct(l) } : n \in 0..MaxItems }

\* The bucket and remote directory the caller passes.
s3Bucket == "bucket"
remoteDirectory == <<"u", "/">>

\* The options object: any subset of the keys maximumConcurrentUploads
\* (a number, possibly zero or negative) and ContentType.
CapValues == (0 - 1)..MaxCap

EmptyOptions == [k \in {} |-> 0]

CapOptions ==
  { EmptyOptions } \cup { [maximumConcurrentUploads |-> c] : c \in CapValues }

OptionObjects ==
  CapOptions \cup { o @@ ("ContentType" :> "text/plain") : o \in CapOptions }

\* What the storage client passes to the completion callback: a falsy value
\* on success, an error value on failure.
NoError == "null"
Errors == { "e1", "e2" }
Replies == { NoError } \cup Errors

\* The outcome of a transfer whose callback has not fired.
None == "none"

\* ------------------------------------------------- pure helpers

\* String.prototype.startsWith('/') and endsWith('/') on a character sequence.
StartsWithSlash(path) == Len(path) > 0 /\ path[1] = "/"
EndsWithSlash(path) == Len(path) > 0 /\ path[Len(path)] = "/"

\* normalizePath: drop one leading slash, then one trailing slash.
normalizePath(path) ==
  LET afterHead == IF StartsWithSlash(path) THEN Tail(path) ELSE path
  IN  IF EndsWithSlash(afterHead)
      THEN SubSeq(afterHead, 1, Len(afterHead) - 1)
      ELSE afterHead

\* Variant: the root directory is used as given.
getS3KeyRawRoot(rootDirectory, filePath) ==
  rootDirectory \o <<"/">> \o normalizePath(filePath)

\* getS3Key: `${normalizePath(rootDirectory)}/${normalizePath(filePath)}`.
getS3Key(rootDirectory, filePath) ==
  normalizePath(rootDirectory) \o <<"/">> \o normalizePath(filePath)

\* What a call that throws gives in place of a value.
Thrown == "throws"

\* fs.readFileSync(filePath): the bytes of the file when the path holds a
\* readable file, an exception when it does not (no such file, a directory,
\* no permission).  Whether it does is the file system's state at the call.
readFileSync(filePath, readable) ==
  IF readable THEN <<"bytes of", filePath>> ELSE Thrown

\* The request object handed to s3Client.putObject for one file, built once
\* the file has been read.
uploadOptions(filePath) ==
  [ Bucket |-> s3Bucket,
    Key    |-> getS3Key(remoteDirectory, filePath),
    Body   |-> readFileSync(filePath, TRUE) ]

\* The cap the run uses: options.maximumConcurrentUploads when the key is
\* present, the default otherwise.
ReadCap(opts) ==
  IF "maximumConcurrentUploads" \in DOMAIN opts
  THEN opts["maximumConcurrentUploads"]
  ELSE DEFAULT_MAXIMUM_CONCURRENT_UPLOADS

\* The empty failures object.
NoFailures == [p \in {} |-> NoError]

\* failures[filePath] = error on the plain object failures: the object gets
\* the own key filePath, except for '__proto__', where the assignment goes to
\* the prototype setter (it sets the prototype to an error object and ignores
\* a string) and the object's own keys stay as they are.
PutFailure(fl, filePath, error) ==
  IF filePath = ProtoPath
  THEN fl
  ELSE [q \in (DOMAIN fl) \cup {filePath} |->
          IF q = filePath THEN error ELSE fl[q]]

\* Object.keys(failures).length
FailureCount(fl) == Cardinality(DOMAIN fl)

\* ------------------------------------------------------------- state

VARIABLES
  items,                      \* the input list as the caller built it
  options,                    \* the options object of the call
  filePaths,                  \* the caller's array, drained by the run
  maximumConcurrentUploads,   \* the cap read from the options
  failures,                   \* file path -> error reported for it
  uploadsInProgress,          \* the run's in-flight counter
  promise,                    \* the promise the caller awaits
  settleLog,                  \* calls made to the promise's resolve / reject
  pc,                         \* where the coordinator is
  yielded,                    \* whether the coordinator has awaited the timer
  calls,                      \* the putObject calls made, in order
  outcome,                    \* per path, what its callback reported
  highest,                    \* most transfers seen in flight at a putObject call
  hung                        \* transfers whose callback the client never calls

\* The arguments and results of calls to normalizePath and getS3Key.
VARIABLES
  argRoot,                    \* the rootDirectory argument
  argPath,                    \* the path argument
  pathPc,                     \* which call has been made
  normalized,                 \* normalizePath(argPath)
  renormalized,               \* normalizePath(normalized)
  s3Key                       \* getS3Key(argRoot, argPath)

\* The argument and result of a call to recursiveReadDirSync.
VARIABLES
  tree,                       \* the directory tree under the root
  walked,                     \* the list returned
  walkPc                      \* whether the call has been made

\* The invocations of uploadUntilFinished under way side by side on one event
\* loop: per invocation, its arguments, its locals and its promise.
VARIABLES
  runs

uploadVars ==
  << items, options, filePaths, maximumConcurrentUploads, failures,
     uploadsInProgress, promise, settleLog, pc, yielded, calls, outcome,
     highest, hung >>

pathVars == << argRoot, argPath, pathPc, normalized, renormalized, s3Key >>

walkVars == << tree, walked, walkPc >>

vars == << uploadVars, pathVars, walkVars, runs >>

\* No call to the path helpers / to the directory walk is under way.
PathIdle ==
  /\ argRoot = <<>>
  /\ argPath = <<>>
  /\ pathPc = "idle"
  /\ normalized = <<>>
  /\ renormalized = <<>>
  /\ s3Key = <<>>

WalkIdle ==
  /\ tree = <<>>
  /\ walked = <<>>
  /\ walkPc = "idle"

\* No invocations side by side.
RunsIdle == runs = <<>>

\* The paths putObject has been called for.
Launched == { calls[i].item : i \in 1..Len(calls) }

\* The transfers launched whose callback has not fired.
InFlight == { p \in Launched : outcome[p] = None }

\* The in-flight transfers the client will still call back for.
Answerable == InFlight \ hung

\* The paths whose callback reported success / an error.
Succeeded == { p \in Paths : outcome[p] = NoError }
Failed == { p \in Paths : outcome[p] \in Errors }

Init ==
  /\ items \in ItemLists
  /\ options \in OptionObjects
  /\ filePaths = items
  /\ maximumConcurrentUploads = ReadCap(options)
  /\ failures = NoFailures
  /\ uploadsInProgress = 0
  /\ promise = [state |-> "pending", value |-> "none"]
  /\ settleLog = <<>>
  /\ pc = "start"
  /\ yielded = FALSE
  /\ calls = <<>>
  /\ outcome = [p \in Paths |-> None]
  /\ highest = 0
  /\ hung = {}
  /\ PathIdle
  /\ WalkIdle
  /\ RunsIdle

\* ------------------------------------------------- the promise

\* resolve(value) / reject(reason) on a promise: the first call settles it,
\* any later call has no effect.
Settle(pr, state, value) ==
  IF pr.state = "pending" THEN [state |-> state, value |-> value] ELSE pr

\* ------------------------------------------------- the coordinator

\* Variant: the loop stops as soon as the list is drained.
LoopCondIgnoringInFlight(fp, uip) == Len(fp) > 0

\* Variant: the length test admits the empty list.
LoopCondAdmitsEmpty(fp, uip) == Len(fp) >= 0 \/ uip > 0

\* The while condition of the loop.
LoopCond(fp, uip) == Len(fp) > 0 \/ uip > 0

\* Variant: the counter may reach the cap before the test fails.
CanDispatchOffByOne(uip, max, fp) == uip <= max /\ Len(fp) > 0

\* The if condition guarding a dispatch.
CanDispatch(uip, max, fp) == uip < max /\ Len(fp) > 0

\* Variant: the first element is read where the last one is removed.
PoppedItemFirst(fp) == fp[1]

\* Variant: shift() instead of pop(): the first element leaves the array.
AfterPopShift(fp) == Tail(fp)

\* Variant: two elements leave the array for one dispatch.
AfterPopTwo(fp) == IF Len(fp) >= 2 THEN SubSeq(fp, 1, Len(fp) - 2) ELSE <<>>

\* filePaths.pop(): the element returned, and the array left behind.
PoppedItem(fp) == fp[Len(fp)]
AfterPop(fp) == SubSeq(fp, 1, Len(fp) - 1)

\* Variant: the error argument is stored without being tested.
CallbackEffectUnchecked(fl, uip, filePath, error) ==
  [ failures          |-> PutFailure(fl, filePath, error),
    uploadsInProgress |-> uip - 1 ]

\* The completion callback handed to putObject, run with `error` for the
\* transfer of filePath: the failures object and the counter it leaves.
CallbackEffect(fl, uip, filePath, error) ==
  [ failures          |-> IF error # NoError
                          THEN PutFailure(fl, filePath, error)
                          ELSE fl,
    uploadsInProgress |-> uip - 1 ]

\* Variant: resolve() is called before the failures are looked at.
FinishResolveFirst(pr, fl) ==
  LET rejected == FailureCount(fl) > 0
      p1 == Settle(pr, "fulfilled", "undefined")
  IN  [ promise |-> IF rejected THEN Settle(p1, "rejected", fl) ELSE p1,
        log     |-> IF rejected THEN <<"resolve", "reject">> ELSE <<"resolve">> ]

\* The code after the loop: reject(failures) when there are failures, then
\* resolve() in every case.  Gives the promise and the log of the calls.
Finish(pr, fl) ==
  LET rejected == FailureCount(fl) > 0
      p1 == IF rejected THEN Settle(pr, "rejected", fl) ELSE pr
  IN  [ promise |-> Settle(p1, "fulfilled", "undefined"),
        log     |-> IF rejected THEN <<"reject", "resolve">> ELSE <<"resolve">> ]

Max(a, b) == IF a > b THEN a ELSE b

\* A launch in which fs.readFileSync throws, and one in which putObject throws
\* (and never calls the callback).
ReadThrows == "readFileSync throws"
PutThrows == "putObject throws"
Throwers == { ReadThrows, PutThrows }

\* The body of the if: count the transfer, pop its path, read the file, build
\* the request and call putObject.  The read or putObject may throw, after the
\* counter was incremented and the path popped.  Otherwise the client either
\* calls the callback before putObject returns (launch is what it reports) or
\* keeps it for later ("async").
Dispatch(launch) ==
  LET filePath == PoppedItem(filePaths)
      counted  == uploadsInProgress + 1
      body     == readFileSync(filePath, launch # ReadThrows)
      done     == CallbackEffect(failures, counted, filePath, launch)
  IN  /\ filePaths' = AfterPop(filePaths)
      /\ IF body = Thrown
         THEN /\ uploadsInProgress' = counted
              /\ UNCHANGED << calls, highest, failures, outcome, hung >>
         ELSE /\ calls' = Append(calls, [item |-> filePath, request |-> uploadOptions(filePath)])
              /\ highest' = Max(highest, Cardinality(InFlight) + 1)
              /\ IF launch = PutThrows
                 THEN /\ uploadsInProgress' = counted
                      /\ hung' = hung \cup {filePath}
                      /\ UNCHANGED << failures, outcome >>
                 ELSE IF launch = "async"
                 THEN /\ uploadsInProgress' = counted
                      /\ UNCHANGED << failures, outcome, hung >>
                 ELSE /\ uploadsInProgress' = done.uploadsInProgress
                      /\ failures' = done.failures
                      /\ outcome' = [outcome EXCEPT ![filePath] = launch]
                      /\ UNCHANGED hung

\* One turn of the loop from its head: leave the loop and settle the promise,
\* or dispatch at most one item and await the timer.  The executor is an async
\* function, so an exception thrown by the dispatch rejects the promise the
\* executor itself returned, which nobody holds: the loop is over, and neither
\* resolve nor reject of the batch promise is called.
LoopTurnFor(replies) ==
  IF LoopCond(filePaths, uploadsInProgress)
  THEN /\ IF CanDispatch(uploadsInProgress, maximumConcurrentUploads, filePaths)
          THEN \E launch \in replies \cup Throwers :
                 /\ Dispatch(launch)
                 /\ pc' = IF launch \in Throwers THEN "crashed" ELSE "sleep"
                 /\ yielded' = (yielded \/ launch \notin Throwers)
          ELSE /\ UNCHANGED << filePaths, calls, highest, uploadsInProgress,
                               failures, outcome, hung >>
               /\ pc' = "sleep"
               /\ yielded' = TRUE
       /\ UNCHANGED << promise, settleLog >>
  ELSE /\ promise' = Finish(promise, failures).promise
       /\ settleLog' = settleLog \o Finish(promise, failures).log
       /\ pc' = "done"
       /\ UNCHANGED << filePaths, calls, highest, uploadsInProgress, failures,
                       outcome, yielded, hung >>

\* A loop turn with a client that may reply at once or later.
LoopTurn == LoopTurnFor(Replies \cup {"async"})

\* What no loop turn and no callback changes.
Frame ==
  UNCHANGED << items, options, maximumConcurrentUploads, pathVars, walkVars,
               runs >>

\* The promise executor runs, synchronously, up to its first await.
Executor ==
  /\ pc = "start"
  /\ LoopTurn
  /\ Frame

\* The 25 ms timer of egalitarianSleep fires and the loop goes on.
TimerFires ==
  /\ pc = "sleep"
  /\ LoopTurn
  /\ Frame

\* The storage client calls back for an in-flight transfer.
Callback ==
  \E filePath \in Answerable, reply \in Replies :
    LET done == CallbackEffect(failures, uploadsInProgress, filePath, reply)
    IN  /\ failures' = done.failures
        /\ uploadsInProgress' = done.uploadsInProgress
        /\ outcome' = [outcome EXCEPT ![filePath] = reply]
        /\ UNCHANGED << filePaths, promise, settleLog, pc, yielded, calls,
                        highest, hung >>
        /\ Frame

Next == Executor \/ TimerFires \/ Callback

Spec == Init /\ [][Next]_vars

\* Runs whose options carry at most the cap: no other option key is read.
SchedulingInit == Init /\ options \in CapOptions

\* The timer always fires, and the storage client calls every callback.
FairSpec ==
  /\ SchedulingInit
  /\ [][Next]_vars
  /\ WF_vars(TimerFires)
  /\ WF_vars(Callback)

\* ------------------------------------- a client that always replies later

\* The executor and the timer turn with a storage client that never calls the
\* callback before putObject returns (the client of the concurrency test).
ExecutorAsync ==
  /\ pc = "start"
  /\ LoopTurnFor({"async"})
  /\ Frame

TimerFiresAsync ==
  /\ pc = "sleep"
  /\ LoopTurnFor({"async"})
  /\ Frame

NextAsync == ExecutorAsync \/ TimerFiresAsync \/ Callback

AsyncSpec == Init /\ [][NextAsync]_vars

\* --------------------------------------------- a client that may hang

\* The storage client drops an in-flight transfer: its callback is never
\* called.  Nothing in the run observes it.
Hang ==
  /\ \E filePath \in Answerable : hung' = hung \cup {filePath}
  /\ UNCHANGED << items, options, filePaths, maximumConcurrentUploads,
                  failures, uploadsInProgress, promise, settleLog, pc, yielded,
                  calls, outcome, highest, pathVars, walkVars, runs >>

HungInit == SchedulingInit

NextHung == Executor \/ TimerFires \/ Callback \/ Hang

\* The executor runs when the promise is built and the timer always fires;
\* the client calls every callback it has not dropped.
HungSpec ==
  /\ HungInit
  /\ [][NextHung]_vars
  /\ WF_vars(Executor)
  /\ WF_vars(TimerFires)
  /\ WF_vars(Callback)

\* ------------------------------------ calls to the path helpers

\* The state of the uploader while no upload is under way.
UploadIdle ==
  /\ items = <<>>
  /\ options = EmptyOptions
  /\ filePaths = <<>>
  /\ maximumConcurrentUploads = DEFAULT_MAXIMUM_CONCURRENT_UPLOADS
  /\ failures = NoFailures
  /\ uploadsInProgress = 0
  /\ promise = [state |-> "pending", value |-> "none"]
  /\ settleLog = <<>>
  /\ pc = "idle"
  /\ yielded = FALSE
  /\ calls = <<>>
  /\ outcome = [p \in Paths |-> None]
  /\ highest = 0
  /\ hung = {}

\* Every string over these characters of length <= MaxPathLen.
PathChars == { "/", ".", "a" }

RECURSIVE StringsOfLen(_)
StringsOfLen(n) ==
  IF n = 0 THEN { <<>> }
  ELSE { Append(str, ch) : str \in StringsOfLen(n - 1), ch \in PathChars }

ShortStrings == UNION { StringsOfLen(n) : n \in 0..MaxPathLen }

\* The paths of the unit test, of the README and of the specification.
TestPath == << "/", "c", "a", "w", "/", "w", "a", "c", "/" >>
ExampleRoot == << "u", "p", "l", "o", "a", "d", "s", "/", "d", "i", "r" >>
ExampleRootSlash == << "u", "p", "l", "o", "a", "d", "s", "/", "d", "i", "r", "/" >>
ExampleLocalPath == << ".", "/", "l", "o", "c", "a", "l", "/", "d", "i", "r", "/", "f", "i", "l", "e", ".", "t", "x", "t" >>
ExampleJoinedPath == << "l", "o", "c", "a", "l", "/", "d", "i", "r", "/", "f", "i", "l", "e", ".", "t", "x", "t" >>

RootArgs == { ExampleRoot, ExampleRootSlash, <<"/", "u", "/">>, <<>> }

PathArgs == ShortStrings \cup { TestPath, ExampleLocalPath, ExampleJoinedPath }

PathInit ==
  /\ UploadIdle
  /\ WalkIdle
  /\ RunsIdle
  /\ argRoot \in RootArgs
  /\ argPath \in PathArgs
  /\ pathPc = "call"
  /\ normalized = <<>>
  /\ renormalized = <<>>
  /\ s3Key = <<>>

\* normalizePath(argPath)
CallNormalizePath ==
  /\ pathPc = "call"
  /\ normalized' = normalizePath(argPath)
  /\ pathPc' = "normalized"
  /\ UNCHANGED << argRoot, argPath, renormalized, s3Key, uploadVars, walkVars,
                  runs >>

\* normalizePath applied to its own result
CallNormalizePathAgain ==
  /\ pathPc = "normalized"
  /\ renormalized' = normalizePath(normalized)
  /\ pathPc' = "renormalized"
  /\ UNCHANGED << argRoot, argPath, normalized, s3Key, uploadVars, walkVars,
                  runs >>

\* getS3Key(argRoot, argPath)
CallGetS3Key ==
  /\ pathPc = "call"
  /\ s3Key' = getS3Key(argRoot, argPath)
  /\ pathPc' = "keyed"
  /\ UNCHANGED << argRoot, argPath, normalized, renormalized, uploadVars,
                  walkVars, runs >>

PathNext == CallNormalizePath \/ CallNormalizePathAgain \/ CallGetS3Key

PathSpec == PathInit /\ [][PathNext]_vars

\* ------------------------------------ the directory walk

\* The names an entry of a directory may have, and the root the walk starts at.
EntryNames == { <<"a">>, <<"b">> }
WalkRoot == << "t", "e", "s", "t" >>

\* A directory is the sequence of its entries in the order fs.readdirSync
\* lists them; an entry has a name, what fs.statSync says of it (a file, a
\* directory, or neither), and, for a directory, its own entries.
RECURSIVE TreeSize(_)
TreeSize(listing) ==
  IF listing = <<>> THEN 0
  ELSE 1 + TreeSize(Head(listing).children) + TreeSize(Tail(listing))

\* Every directory of at most n entries in all, its own entries named
\* differently from one another with names from `names`.
RECURSIVE Listings(_, _)
Listings(n, names) ==
  IF n = 0 THEN { <<>> }
  ELSE { <<>> } \cup UNION {
         { << [name |-> nm, kind |-> k, children |-> <<>>] >> \o rest :
             k \in {"file", "other"}, rest \in Listings(n - 1, names \ {nm}) }
         \cup UNION {
           { << [name |-> nm, kind |-> "dir", children |-> sub] >> \o rest :
               rest \in Listings(n - 1 - TreeSize(sub), names \ {nm}) } :
           sub \in Listings(n - 1, EntryNames) } :
         nm \in names }

Trees == Listings(MaxNodes, EntryNames)

\* path.join(directory, fileName), for a directory and a name with nothing in
\* them to normalize.
pathJoin(directory, fileName) == directory \o <<"/">> \o fileName

RECURSIVE ForEachEntry(_, _, _)

\* Variant: the recursive call starts from the default, empty accumulator.
recursiveReadDirSyncFresh(directory, listing, allFilePaths) ==
  ForEachEntry(directory, listing, <<>>)

\* recursiveReadDirSync(directory, allFilePaths), where listing is what
\* fs.readdirSync(directory) returns.
recursiveReadDirSync(directory, listing, allFilePaths) ==
  ForEachEntry(directory, listing, allFilePaths)

\* The forEach over the entries: allFilePaths after the callback has run for
\* each of them in turn.
ForEachEntry(directory, entries, allFilePaths) ==
  IF entries = <<>> THEN allFilePaths
  ELSE LET entry    == Head(entries)
           filePath == pathJoin(directory, entry.name)
           after    == IF entry.kind = "file"
                       THEN Append(allFilePaths, filePath)
                       ELSE IF entry.kind = "dir"
                       THEN recursiveReadDirSync(filePath, entry.children,
                                                 allFilePaths)
                       ELSE allFilePaths
       IN  ForEachEntry(directory, Tail(entries), after)

WalkInit ==
  /\ UploadIdle
  /\ PathIdle
  /\ RunsIdle
  /\ tree \in Trees
  /\ walked = <<>>
  /\ walkPc = "call"

\* recursiveReadDirSync(WalkRoot)
CallRecursiveReadDirSync ==
  /\ walkPc = "call"
  /\ walked' = recursiveReadDirSync(WalkRoot, tree, <<>>)
  /\ walkPc' = "done"
  /\ UNCHANGED << tree, uploadVars, pathVars, runs >>

WalkNext == CallRecursiveReadDirSync

WalkSpec == WalkInit /\ [][WalkNext]_vars

\* ------------------------------------ two invocations side by side

\* Most items in the list of each of two invocations running side by side.
MaxDuoItems == 2

\* The two invocations of uploadUntilFinished.
Runs == { 1, 2 }

\* The arrays the two callers pass are separate arrays; a path of the one may
\* also be in the other.  Each is a prefix of the invocation's base list.
DuoBase(r) ==
  IF r = 1
  THEN << <<"a">>, <<"/", "b">>, <<"c", "/">>, <<"/", "d", "/">> >>
  ELSE << ProtoPath, <<"a">>, <<"/", "d", "/">>, <<"c", "/">> >>

DuoLists(r) ==
  { SubSeq(DuoBase(r), 1, n) :
      n \in { m \in 0..MaxDuoItems : m <= Len(DuoBase(r)) } }

\* The options of each call: no cap given, or a cap of at least 1.
DuoOptions == { o \in CapOptions : ReadCap(o) >= 1 }

\* An invocation whose promise executor has not run yet: the arguments, the
\* cap read from the options, the locals failures and uploadsInProgress, and
\* the pending promise.
NewRun(list, opts) ==
  [ items                    |-> list,
    filePaths                |-> list,
    maximumConcurrentUploads |-> ReadCap(opts),
    failures                 |-> NoFailures,
    uploadsInProgress        |-> 0,
    promise                  |-> [state |-> "pending", value |-> "none"],
    pc                       |-> "start",
    calls                    |-> <<>>,
    outcome                  |-> [p \in Paths |-> None],
    hung                     |-> {} ]

DuoInit ==
  /\ UploadIdle
  /\ PathIdle
  /\ WalkIdle
  /\ \E l1 \in DuoLists(1), l2 \in DuoLists(2), o1 \in DuoOptions, o2 \in DuoOptions :
       runs = [r \in Runs |-> IF r = 1 THEN NewRun(l1, o1) ELSE NewRun(l2, o2)]

\* Variant: failures and uploadsInProgress are declared once, at module
\* level, so every invocation reads and writes those of the first.
ClosureModuleLevel(r) == 1

\* The invocation whose failures and uploadsInProgress the executor and the
\* callbacks of invocation r read and write: both are declared inside
\* uploadUntilFinished, so each invocation closes over its own.
Closure(r) == r

\* The transfers invocation r has launched whose callback has not fired.
RunInFlight(r) ==
  { p \in Paths : /\ \E i \in 1..Len(runs[r].calls) : runs[r].calls[i].item = p
                  /\ runs[r].outcome[p] = None }

\* runs after a handler of invocation r: `local` is r's record as the handler
\* leaves it, uip and fl the counter and the failures object it has written.
Written(r, local, uip, fl) ==
  [ q \in Runs |->
      LET base == IF q = r THEN local ELSE runs[q]
      IN  IF q = Closure(r)
          THEN [base EXCEPT !.uploadsInProgress = uip, !.failures = fl]
          ELSE base ]

\* One turn of the loop of invocation r from its head: leave the loop and
\* settle r's promise, or dispatch at most one item of r's array and await
\* the timer.  A dispatch in which fs.readFileSync or putObject throws ends
\* r's loop with r's promise pending.
DuoTurn(r, replies) ==
  LET me  == runs[r]
      fl  == runs[Closure(r)].failures
      uip == runs[Closure(r)].uploadsInProgress
  IN  IF LoopCond(me.filePaths, uip)
      THEN IF CanDispatch(uip, me.maximumConcurrentUploads, me.filePaths)
           THEN \E launch \in replies \cup Throwers :
                  LET filePath == PoppedItem(me.filePaths)
                      counted  == uip + 1
                      body     == readFileSync(filePath, launch # ReadThrows)
                      done     == CallbackEffect(fl, counted, filePath, launch)
                      popped   ==
                        [me EXCEPT
                           !.filePaths = AfterPop(me.filePaths),
                           !.pc = IF launch \in Throwers THEN "crashed"
                                                         ELSE "sleep"]
                      launched ==
                        [popped EXCEPT
                           !.calls = Append(me.calls,
                                            [item    |-> filePath,
                                             request |-> uploadOptions(filePath)])]
                  IN  IF body = Thrown
                      THEN runs' = Written(r, popped, counted, fl)
                      ELSE IF launch = PutThrows
                      THEN runs' = Written(r,
                                     [launched EXCEPT !.hung = @ \cup {filePath}],
                                     counted, fl)
                      ELSE IF launch = "async"
                      THEN runs' = Written(r, launched, counted, fl)
                      ELSE runs' = Written(r,
                                     [launched EXCEPT !.outcome[filePath] = launch],
                                     done.uploadsInProgress, done.failures)
           ELSE runs' = Written(r, [me EXCEPT !.pc = "sleep"], uip, fl)
      ELSE runs' = Written(r,
                     [me EXCEPT !.promise = Finish(me.promise, fl).promise,
                                !.pc = "done"],
                     uip, fl)

\* The promise executor of invocation r runs, synchronously, up to its first
\* await.
ExecutorOf(r) ==
  /\ runs[r].pc = "start"
  /\ DuoTurn(r, Replies \cup {"async"})
  /\ UNCHANGED << uploadVars, pathVars, walkVars >>

\* The 25 ms timer invocation r awaits fires and its loop goes on.
TimerFiresOf(r) ==
  /\ runs[r].pc = "sleep"
  /\ DuoTurn(r, Replies \cup {"async"})
  /\ UNCHANGED << uploadVars, pathVars, walkVars >>

\* The storage client calls back for an in-flight transfer of invocation r.
CallbackOf(r) ==
  /\ \E filePath \in RunInFlight(r) \ runs[r].hung, reply \in Replies :
       LET done == CallbackEffect(runs[Closure(r)].failures,
                                  runs[Closure(r)].uploadsInProgress,
                                  filePath, reply)
       IN  runs' = Written(r, [runs[r] EXCEPT !.outcome[filePath] = reply],
                           done.uploadsInProgress, done.failures)
  /\ UNCHANGED << uploadVars, pathVars, walkVars >>

\* The event loop runs one handler at a time, of either invocation.
DuoNext == \E r \in Runs : ExecutorOf(r) \/ TimerFiresOf(r) \/ CallbackOf(r)

DuoSpec == DuoInit /\ [][DuoNext]_vars

\* ------------------------------------------------------------- claims

\* The items still in the caller's array.
Pending == { filePaths[i] : i \in 1..Len(filePaths) }

\* How many putObject calls were made for path p.
CallsFor(p) == Cardinality({ i \in 1..Len(calls) : calls[i].item = p })

Settled == promise.state # "pending"

\* C1: with a cap of at least 1, the transfers launched and not yet called
\* back never number more than the cap: neither the set of in-flight
\* transfers, nor the counter, nor the count seen at any putObject call.
C1_CapNeverExceeded ==
  maximumConcurrentUploads >= 1 =>
    /\ Cardinality(InFlight) <= maximumConcurrentUploads
    /\ uploadsInProgress <= maximumConcurrentUploads
    /\ highest <= maximumConcurrentUploads

\* The run sits at a cap of 2 with two transfers in flight and work pending.
C1_Witness ==
  /\ maximumConcurrentUploads = 2
  /\ Cardinality(InFlight) = 2
  /\ highest = 2
  /\ Len(filePaths) > 0

\* C2: when a callback has reported an error, the finished run has rejected
\* with a mapping whose keys are exactly the failed paths, each mapped to the
\* error its own callback reported.
C2_RejectsWithExactFailures ==
  (pc = "done" /\ Failed # {}) =>
    /\ promise.state = "rejected"
    /\ DOMAIN promise.value = Failed
    /\ \A p \in Failed : promise.value[p] = outcome[p]

\* C3: while no callback has reported an error the promise is never rejected
\* (reject is not even called), and a finished run has resolved with the
\* failure mapping empty.
C3_AllSucceedResolves ==
  Failed = {} =>
    /\ promise.state # "rejected"
    /\ \A i \in 1..Len(settleLog) : settleLog[i] # "reject"
    /\ pc = "done" => (promise.state = "fulfilled" /\ FailureCount(failures) = 0)

\* A resolved run in which two transfers succeeded.
C3_Witness ==
  /\ pc = "done"
  /\ promise.state = "fulfilled"
  /\ Cardinality(Succeeded) >= 2
  /\ Failed = {}

\* C4: a settled promise means the list is empty, nothing is in flight, and
\* the successes and failures reported add up to the length of the input.
C4_SettlesOnlyWhenAllDone ==
  Settled =>
    /\ Len(filePaths) = 0
    /\ uploadsInProgress = 0
    /\ InFlight = {}
    /\ Cardinality(Succeeded) + Cardinality(Failed) = Len(items)

\* A settled run of at least two items, with a success and a failure.
C4_Witness ==
  /\ Settled
  /\ Len(items) >= 2
  /\ Succeeded # {}
  /\ Failed # {}

\* C5: putObject is never called twice for a path, is called only for items
\* of the input, and in a finished run has been called once for every item.
C5_EachItemUploadedOnce ==
  /\ \A p \in Paths : CallsFor(p) <= 1
  /\ \A i \in 1..Len(calls) : \E j \in 1..Len(items) : items[j] = calls[i].item
  /\ pc = "done" => \A j \in 1..Len(items) : CallsFor(items[j]) = 1

\* A finished run of three items, three putObject calls made.
C5_Witness ==
  /\ pc = "done"
  /\ Len(items) = 3
  /\ Len(calls) = 3

\* C6: a failure neither cancels nor blocks the rest.  Once some callback has
\* reported an error, every item still pending is eventually launched and
\* every transfer in flight eventually has its outcome recorded; and a
\* settled promise means every item was launched and its outcome recorded.
C6_FailureDoesNotBlock ==
  /\ \A p \in Paths : (Failed # {} /\ p \in Pending) ~> (p \in Launched)
  /\ \A p \in Paths : (Failed # {} /\ p \in InFlight) ~> (outcome[p] # None)
  /\ [](Settled =>
          \A j \in 1..Len(items) :
            /\ items[j] \in Launched
            /\ outcome[items[j]] # None
            /\ outcome[items[j]] \in Errors =>
                 (/\ items[j] \in DOMAIN failures
                  /\ failures[items[j]] = outcome[items[j]]))

\* C7: with a cap of 0 or less the run is rejected before anything is
\* launched: once the executor has run, the promise is rejected and no
\* putObject call has been made.
C7_NonPositiveCapRejected ==
  (maximumConcurrentUploads <= 0 /\ pc # "start") =>
    /\ promise.state = "rejected"
    /\ calls = <<>>

\* C8: for an empty input list the executor resolves the promise at once:
\* no putObject call, no wait on the timer.
C8_EmptyListResolvesAtOnce ==
  (Len(items) = 0 /\ pc # "start") =>
    /\ pc = "done"
    /\ promise.state = "fulfilled"
    /\ calls = <<>>
    /\ ~yielded

\* The executor has run on an empty list.
C8_Witness ==
  /\ Len(items) = 0
  /\ pc = "done"
  /\ promise.state = "fulfilled"

\* C9: the promise is settled once.  A run that calls reject(failures) is
\* observed as rejected with that mapping although resolve() is called after
\* it; the promise is settled exactly when the run is over; and once it is
\* settled neither it nor the failure mapping changes.
C9_SettledOnce ==
  /\ []((\E i \in 1..Len(settleLog) : settleLog[i] = "reject") =>
          /\ promise.state = "rejected"
          /\ promise.value = failures
          /\ settleLog = <<"reject", "resolve">>)
  /\ [](Settled <=> pc = "done")
  /\ [][Settled => (promise' = promise /\ failures' = failures)]_vars

\* reject(failures) and then resolve() were called; the promise is rejected.
C9_Witness ==
  /\ settleLog = <<"reject", "resolve">>
  /\ promise.state = "rejected"
  /\ FailureCount(failures) >= 1

\* C10: every option key other than maximumConcurrentUploads is in the request
\* of every putObject call, with the caller's value.
C10_OptionsPassedThrough ==
  \A i \in 1..Len(calls) :
    \A k \in (DOMAIN options) \ {"maximumConcurrentUploads"} :
      /\ k \in DOMAIN calls[i].request
      /\ calls[i].request[k] = options[k]

\* C11: in a finished run with more items than the cap, every transfer
\* completing after putObject returned, the most transfers ever seen in flight
\* equals the cap.
C11_ReachesCap ==
  ( /\ pc = "done"
    /\ maximumConcurrentUploads >= 1
    /\ Len(items) > maximumConcurrentUploads ) =>
    highest = maximumConcurrentUploads

\* C12: items are launched from the end of the input list: the k-th putObject
\* call is for the k-th item from the end, so of two items the later one in
\* the list is always launched first.
C12_LifoDispatch ==
  \A k \in 1..Len(calls) :
    /\ k <= Len(items)
    /\ calls[k].item = items[Len(items) - k + 1]

\* Three items launched last to first, the first one launched still in flight
\* after the last one launched has completed.
C12_Witness ==
  /\ Len(items) = 3
  /\ Len(calls) = 3
  /\ calls[1].item = items[3]
  /\ calls[3].item = items[1]
  /\ outcome[items[3]] = None
  /\ outcome[items[1]] # None

\* C16: a loop turn that ends awaiting the timer leaves the list empty or the
\* counter at the cap (for a cap of at least 1): all free capacity is filled
\* before the coordinator yields.
C16_FillsCapacityBeforeYield ==
  [][ ( /\ pc' = "sleep"
        /\ (pc # "sleep" \/ calls' # calls)
        /\ maximumConcurrentUploads >= 1 ) =>
        (Len(filePaths') = 0 \/ uploadsInProgress' = maximumConcurrentUploads)
    ]_vars

\* C17: with a cap of at least 1 and a timer that always fires, the promise
\* settles if and only if every launched transfer is called back: a run in
\* which the client drops no transfer settles, and once a transfer has been
\* dropped it stays dropped, keeps its slot, and the promise stays pending.
C17_SettlesIffAllCallBack ==
  /\ (maximumConcurrentUploads >= 1) ~> (Settled \/ hung # {})
  /\ [](hung # {} => ~Settled)
  /\ [](hung \subseteq InFlight /\ uploadsInProgress >= Cardinality(hung))
  /\ [][hung \subseteq hung']_vars

\* C18: the items pending, the in-flight counter and the items called back
\* always add up to the length of the input, and the counter is the number
\* of transfers launched and not yet called back, never negative.
C18_Conservation ==
  /\ Len(filePaths) + uploadsInProgress
       + Cardinality({ p \in Paths : outcome[p] # None }) = Len(items)
  /\ uploadsInProgress = Cardinality(InFlight)
  /\ uploadsInProgress >= 0

\* C19: every change to the caller's array removes its last element and
\* nothing else, and a settled promise means the array is empty.
C19_DrainedFromTheEnd ==
  /\ [][ \/ filePaths' = filePaths
         \/ /\ Len(filePaths) > 0
            /\ filePaths' = SubSeq(filePaths, 1, Len(filePaths) - 1) ]_vars
  /\ [](Settled => filePaths = <<>>)

\* A run over three items has resolved and the caller's array is empty.
C19_Witness ==
  /\ Len(items) = 3
  /\ promise.state = "fulfilled"
  /\ Len(filePaths) = 0

\* C20: when a launch has thrown after the counter was incremented, the
\* promise is rejected, and the counter holds no slot for the transfer that
\* was never started: it counts only the transfers still to be called back.
C20_LaunchFailureSettles ==
  pc = "crashed" =>
    /\ promise.state = "rejected"
    /\ uploadsInProgress = Cardinality(Answerable)

\* A path without its leading slash, if it has one, and without the trailing
\* slash, if one is left.
Stripped(path) ==
  LET first == IF Len(path) >= 1 /\ path[1] = "/" THEN 2 ELSE 1
      last  == IF Len(path) >= first /\ path[Len(path)] = "/"
               THEN Len(path) - 1
               ELSE Len(path)
  IN  SubSeq(path, first, last)

\* C13: normalizePath returns its input without leading or trailing slashes,
\* and applying it to its own result changes nothing.
C13_NormalizeIdempotent ==
  /\ pathPc \in {"normalized", "renormalized"} =>
       (~StartsWithSlash(normalized) /\ ~EndsWithSlash(normalized))
  /\ pathPc = "renormalized" => renormalized = normalized

\* The keys of the example: the one the claim names and the one with the
\* local path's leading "./" kept.
ClaimedExampleKey == << "u", "p", "l", "o", "a", "d", "s", "/", "d", "i", "r", "/", "l", "o", "c", "a", "l", "/", "d", "i", "r", "/", "f", "i", "l", "e", ".", "t", "x", "t" >>
DottedExampleKey == << "u", "p", "l", "o", "a", "d", "s", "/", "d", "i", "r", "/", ".", "/", "l", "o", "c", "a", "l", "/", "d", "i", "r", "/", "f", "i", "l", "e", ".", "t", "x", "t" >>

\* C14 as claimed: the key is the root directory without its outer slashes,
\* one "/", and the local path without its outer slashes; for the root
\* 'uploads/dir' and the local path './local/dir/file.txt' it is
\* 'uploads/dir/local/dir/file.txt'.
C14_KeyAsClaimed ==
  pathPc = "keyed" =>
    /\ s3Key = Stripped(argRoot) \o <<"/">> \o Stripped(argPath)
    /\ (argRoot = ExampleRoot /\ argPath = ExampleLocalPath) =>
         s3Key = ClaimedExampleKey

\* C14 as amended: the same composition; for the root 'uploads/dir' the local
\* path './local/dir/file.txt' gives 'uploads/dir/./local/dir/file.txt' (only
\* slashes are stripped), and the local path 'local/dir/file.txt' gives
\* 'uploads/dir/local/dir/file.txt'.
C14_KeyComposition ==
  pathPc = "keyed" =>
    /\ s3Key = Stripped(argRoot) \o <<"/">> \o Stripped(argPath)
    /\ (argRoot \in {ExampleRoot, ExampleRootSlash} /\ argPath = ExampleLocalPath) =>
         s3Key = DottedExampleKey
    /\ (argRoot \in {ExampleRoot, ExampleRootSlash} /\ argPath = ExampleJoinedPath) =>
         s3Key = ClaimedExampleKey

\* getS3Key has been called with the example's root and local path.
C14_Witness ==
  /\ pathPc = "keyed"
  /\ argRoot = ExampleRoot
  /\ argPath = ExampleLocalPath
  /\ s3Key = DottedExampleKey

\* The paths of the regular files under a directory, as a set.
RECURSIVE FilesUnder(_, _)
FilesUnder(directory, listing) ==
  UNION { IF listing[i].kind = "file"
          THEN { pathJoin(directory, listing[i].name) }
          ELSE IF listing[i].kind = "dir"
          THEN FilesUnder(pathJoin(directory, listing[i].name),
                          listing[i].children)
          ELSE {} : i \in 1..Len(listing) }

\* The same files in depth-first order: each entry's files, in listing order,
\* a directory's files where the directory is listed.
RECURSIVE DepthFirst(_, _)
DepthFirst(directory, listing) ==
  IF listing = <<>> THEN <<>>
  ELSE LET entry == Head(listing)
           here  == pathJoin(directory, entry.name)
           mine  == IF entry.kind = "file" THEN << here >>
                    ELSE IF entry.kind = "dir"
                    THEN DepthFirst(here, entry.children)
                    ELSE <<>>
       IN  mine \o DepthFirst(directory, Tail(listing))

\* C15: the list returned holds the root-joined path of every regular file
\* under the root, each once, and nothing else, in depth-first listing order.
C15_WalkListsEveryFileOnce ==
  walkPc = "done" =>
    /\ { walked[i] : i \in 1..Len(walked) } = FilesUnder(WalkRoot, tree)
    /\ \A i, j \in 1..Len(walked) : i # j => walked[i] # walked[j]
    /\ walked = DepthFirst(WalkRoot, tree)

\* The tree of the unit test: a file, then a directory holding a file.
C15_Witness ==
  /\ walkPc = "done"
  /\ Len(tree) = 2
  /\ tree[1].kind = "file"
  /\ tree[2].kind = "dir"
  /\ Len(tree[2].children) = 1
  /\ tree[2].children[1].kind = "file"
  /\ walked = << pathJoin(WalkRoot, tree[1].name),
                 pathJoin(pathJoin(WalkRoot, tree[2].name),
                          tree[2].children[1].name) >>

\* The items of invocation r, and those of its paths whose callback reported
\* an error.
RunItems(r) == { runs[r].items[i] : i \in 1..Len(runs[r].items) }
RunFailed(r) == { p \in Paths : runs[r].outcome[p] \in Errors }

\* The slots invocation r's counter holds for launches of its own that threw
\* before putObject was called: the items popped for which no call was made.
RunLostSlots(r) ==
  Len(runs[r].items) - Len(runs[r].filePaths) - Len(runs[r].calls)

\* C21: two invocations on one event loop, each with its own array, do not
\* interfere, whatever the order of their loop turns and callbacks.  Each
\* invocation's counter is made up of its own record alone (its own transfers
\* in flight, plus the slot of a launch of its own that threw before
\* putObject) and never exceeds its own cap; its failures object holds only
\* errors its own callbacks reported, under paths of its own list, and every
\* one of them but for the path '__proto__'; its promise, once settled, is
\* rejected with exactly that object or fulfilled when it has recorded none;
\* and no handler of one invocation changes anything of the other.
C21_RunsDoNotInterfere ==
  /\ [](\A r \in Runs :
          /\ runs[r].uploadsInProgress
               = Cardinality(RunInFlight(r)) + RunLostSlots(r)
          /\ runs[r].uploadsInProgress <= runs[r].maximumConcurrentUploads
          /\ DOMAIN runs[r].failures = RunFailed(r) \ {ProtoPath}
          /\ DOMAIN runs[r].failures \subseteq RunItems(r)
          /\ \A p \in DOMAIN runs[r].failures :
               runs[r].failures[p] = runs[r].outcome[p]
          /\ runs[r].promise.state = "rejected" =>
               runs[r].promise.value = runs[r].failures
          /\ runs[r].promise.state = "fulfilled" =>
               RunFailed(r) \subseteq {ProtoPath}
          /\ runs[r].pc = "done" <=> runs[r].promise.state # "pending")
  /\ [][\E r \in Runs : \A q \in Runs \ {r} : runs'[q] = runs[q]]_vars

\* Both invocations sit at their own caps at once, 1 and 2, three transfers
\* in flight in all; the path "a" is in flight in both; the first invocation
\* has recorded a failure of its own that the second has not.
C21_Witness ==
  /\ runs # <<>>
  /\ runs[1].maximumConcurrentUploads = 1
  /\ runs[1].uploadsInProgress = 1
  /\ runs[2].maximumConcurrentUploads = 2
  /\ runs[2].uploadsInProgress = 2
  /\ <<"a">> \in RunInFlight(1) \cap RunInFlight(2)
  /\ DOMAIN runs[1].failures = { <<"/", "b">> }
  /\ DOMAIN runs[2].failures = {}

====
